---- MODULE Spec2Model ----
(***************************************************************************)
(* Model of src/loadapp.py, a Streamlit dashboard over a spreadsheet of     *)
(* trucking loads.  One script run (lines 51-141) is one atomic step: the   *)
(* script is single-threaded and runs top to bottom on every interaction.  *)
(*                                                                         *)
(* Conventions                                                             *)
(*   - a nullable number is <<>> (NaN, an empty cell) or <<v>>;            *)
(*   - an optional value is <<>> (not produced) or <<v>>;                  *)
(*   - a row is a function from column names to cell values;               *)
(*   - a DataFrame is [columns |-> sequence of names, rows |-> sequence];  *)
(*   - a datetime is a number of hours, its date is the number of days;    *)
(*   - sorted option lists and group keys are kept as sets / functions     *)
(*     over the keys (TLC has no order on strings); the by-date series is  *)
(*     a sequence in ascending date order.                                 *)
(***************************************************************************)
EXTENDS Integers, Sequences, FiniteSets, TLC

\* Largest number of rows of the spreadsheet.
MaxRows == 3
\* Largest number of script runs of one session that are explored.
MaxRuns == 5

VARIABLES file, cache, loads, session, ui, runs

vars == <<file, cache, loads, session, ui, runs>>

----------------------------------------------------------------------------
(* Values *)

NaN == <<>>

Num(v) == <<v>>

isna(x) == x = NaN

fillna(x, d) == IF isna(x) THEN Num(d) ELSE x

\* Arithmetic of nullable numbers: NaN propagates.
nadd(a, b) == IF isna(a) \/ isna(b) THEN NaN ELSE Num(a[1] + b[1])

nsub(a, b) == IF isna(a) \/ isna(b) THEN NaN ELSE Num(a[1] - b[1])

\* A datetime of the spreadsheet: day d, hour h.
At(d, h) == d * 24 + h

\* Series.dt.date: the date of a datetime, its time of day dropped.
dt_date(t) == t \div 24

AllColumns ==
    << "Driver", "Delivery Status", "Truck#", "Pickup State", "PPickup City",
       "Pickup Date", "Amount", "Driver Pay", "Lumper Paid", "Rate/Mile",
       "Broker Name" >>

Range(s) == { s[i] : i \in 1..Len(s) }

MkRow(d, st, t, s, c, dt, a, dp, lp, rm, b) ==
    ("Driver" :> d) @@ ("Delivery Status" :> st) @@ ("Truck#" :> t) @@
    ("Pickup State" :> s) @@ ("PPickup City" :> c) @@ ("Pickup Date" :> dt) @@
    ("Amount" :> a) @@ ("Driver Pay" :> dp) @@ ("Lumper Paid" :> lp) @@
    ("Rate/Mile" :> rm) @@ ("Broker Name" :> b)

\* The rows spreadsheets are drawn from.  Rows 1-3 are the three-row scenario
\* table; rows 4 and 5 have empty cells.  Rate/Mile is in cents.
Master ==
    << MkRow("A", "Delivered", "T1", "TX", "Dallas", At(1, 8),
             Num(100), Num(20), Num(0), Num(200), "X"),
       MkRow("B", "Pending", "T2", "CA", "LA", At(2, 13),
             Num(200), Num(50), Num(10), Num(300), "Y"),
       MkRow("A", "Delivered", "T1", "TX", "Austin", At(3, 0),
             Num(150), Num(0), Num(0), Num(250), "X"),
       MkRow("B", "Delivered", "T2", "TX", "Dallas", At(2, 23),
             Num(300), NaN, NaN, Num(225), "Y"),
       MkRow("A", "Pending", "T1", "CA", "Dallas", At(1, 0),
             NaN, Num(30), NaN, Num(100), "Y") >>

RECURSIVE SortedSeq(_)
\* The elements of a finite set of integers in ascending order.
SortedSeq(S) ==
    IF S = {} THEN <<>>
    ELSE LET m == CHOOSE x \in S : \A y \in S : x <= y
         IN <<m>> \o SortedSeq(S \ {m})

\* The rows of Master at the indices I, in Master's order.
Pick(I) == LET ix == SortedSeq(I) IN [k \in 1..Len(ix) |-> Master[ix[k]]]

\* The tables a spreadsheet may hold: up to MaxRows consecutive rows of Master.
Tables ==
    { Pick(a..b) : a \in 1..(Len(Master) + 1), b \in 0..Len(Master) } \cap
    { Pick(I) : I \in { J \in SUBSET (1..Len(Master)) : Cardinality(J) <= MaxRows } }

ScenarioTable == Pick({1, 2, 3})

Without(cols, c) == SelectSeq(cols, LAMBDA x : x # c)

Restrict(row, cols) == [c \in Range(cols) |-> row[c]]

Xlsx(cols, rows) ==
    [kind |-> "xlsx", columns |-> cols,
     rows |-> [i \in 1..Len(rows) |-> Restrict(rows[i], cols)]]

MissingFile == [kind |-> "missing", columns |-> <<>>, rows |-> <<>>]

MalformedFile == [kind |-> "malformed", columns |-> <<>>, rows |-> <<>>]

\* The spreadsheets "Load Data.xlsx" may be: absent, unreadable, a table, or
\* a table of two rows with one column left out.
Files ==
    {MissingFile, MalformedFile}
    \cup { Xlsx(AllColumns, t) : t \in Tables }
    \cup { Xlsx(Without(AllColumns, c), Pick({1, 2})) : c \in Range(AllColumns) }

----------------------------------------------------------------------------
(* DataFrame operations *)

Raise(type, arg, line) == [type |-> type, arg |-> arg, line |-> line]

HasCol(df, c) == c \in Range(df.columns)

unique(df, c) == { df.rows[i][c] : i \in 1..Len(df.rows) }

\* df[df[c].isin(S)]
isin(df, c, S) == [df EXCEPT !.rows = SelectSeq(df.rows, LAMBDA r : r[c] \in S)]

\* A faulty variant of between: the bounds are exclusive.
between_exclusive(df, c, lo, hi) ==
    [df EXCEPT !.rows = SelectSeq(df.rows, LAMBDA r : r[c] > lo /\ r[c] < hi)]

\* df[(df[c] >= lo) & (df[c] <= hi)]
between(df, c, lo, hi) ==
    [df EXCEPT !.rows = SelectSeq(df.rows, LAMBDA r : r[c] >= lo /\ r[c] <= hi)]

RECURSIVE SumRows(_, _)
\* Series.sum(): NaN cells are skipped, the sum of nothing is 0.
SumRows(rows, c) ==
    IF rows = <<>> THEN 0
    ELSE (IF isna(Head(rows)[c]) THEN 0 ELSE Head(rows)[c][1]) + SumRows(Tail(rows), c)

sum(df, c) == SumRows(df.rows, c)

\* Series.mean(): NaN cells are skipped; the mean of nothing is NaN.  The mean
\* is kept as the fraction <<sum, count>>.
mean(df, c) ==
    LET present == SelectSeq(df.rows, LAMBDA r : ~isna(r[c]))
    IN IF present = <<>> THEN NaN ELSE <<SumRows(present, c), Len(present)>>

\* df.groupby(k)[c].sum(): one entry per key present.
groupby_sum(df, k, c) ==
    [g \in unique(df, k) |-> SumRows(SelectSeq(df.rows, LAMBDA r : r[k] = g), c)]

\* A faulty variant of value_counts: every key is given the number of rows.
value_counts_total(df, k) == [g \in unique(df, k) |-> Len(df.rows)]

\* df[k].value_counts(): one entry per key present.
value_counts(df, k) ==
    [g \in unique(df, k) |-> Len(SelectSeq(df.rows, LAMBDA r : r[k] = g))]

\* A grouped result over dates as the points of a line, by ascending date.
by_date(df, k, c) ==
    LET keys == SortedSeq(unique(df, k))
        g == groupby_sum(df, k, c)
    IN [i \in 1..Len(keys) |-> <<keys[i], g[keys[i]]>>]

----------------------------------------------------------------------------
(* load_data, lines 44-49 *)

\* A faulty variant of NetProfit: the empty cells are not filled with 0.
NetProfit_nofill(row) ==
    nsub(row["Amount"], nadd(row["Driver Pay"], row["Lumper Paid"]))

\* Line 48: Amount - (Driver Pay.fillna(0) + Lumper Paid.fillna(0)).
NetProfit(row) ==
    nsub(row["Amount"], nadd(fillna(row["Driver Pay"], 0), fillna(row["Lumper Paid"], 0)))

FirstMissing(cols, needed) ==
    LET miss == SelectSeq(needed, LAMBDA c : c \notin Range(cols))
    IN IF miss = <<>> THEN <<>> ELSE <<Head(miss)>>

\* The body of load_data: [exc |-> the exception raised, df |-> the table returned].
load_data(f) ==
    IF f.kind = "missing" THEN
        [exc |-> <<Raise("FileNotFoundError", "Load Data.xlsx", 46)>>, df |-> <<>>]
    ELSE IF f.kind = "malformed" THEN
        [exc |-> <<Raise("BadZipFile", "File is not a zip file", 46)>>, df |-> <<>>]
    ELSE IF "Pickup Date" \notin Range(f.columns) THEN
        [exc |-> <<Raise("KeyError", "Pickup Date", 47)>>, df |-> <<>>]
    ELSE LET miss == FirstMissing(f.columns, <<"Amount", "Driver Pay", "Lumper Paid">>)
         IN IF miss # <<>> THEN
                [exc |-> <<Raise("KeyError", miss[1], 48)>>, df |-> <<>>]
            ELSE
                [exc |-> <<>>,
                 df |-> << [columns |-> Append(f.columns, "Net Profit"),
                            rows |-> [i \in 1..Len(f.rows) |->
                                [f.rows[i] EXCEPT !["Pickup Date"] = dt_date(@)]
                                    @@ ("Net Profit" :> NetProfit(f.rows[i]))]] >>]

\* A faulty variant of cached_load: load_data without its cache decorator.
cached_load_uncached(c, f) ==
    LET r == load_data(f)
    IN [exc |-> r.exc, df |-> r.df, cache |-> r.df,
        ran |-> IF r.exc = <<>> THEN 1 ELSE 0]

\* @st.cache_data: the body runs when nothing is cached; a returned table is
\* cached, a raised exception is not.
cached_load(c, f) ==
    IF c # <<>> THEN [exc |-> <<>>, df |-> c, cache |-> c, ran |-> 0]
    ELSE LET r == load_data(f)
         IN [exc |-> r.exc, df |-> r.df, cache |-> r.df,
             ran |-> IF r.exc = <<>> THEN 1 ELSE 0]

----------------------------------------------------------------------------
(* Widgets *)

Labels == {"Driver", "Status", "Truck#", "State", "City", "Date Range"}

\* The session's widget state before its first run: nothing stored.
NoWidgets == [l \in Labels |-> <<>>]

\* A faulty variant of widget_value: the stored value outlives a change of the
\* options.
widget_value_sticky(stored, opts, default) ==
    IF stored # <<>> THEN stored[1].val ELSE default

\* The value a widget call returns.  Streamlit identifies a widget without a
\* key by its label and parameters (its options, its default value): the value
\* the user last gave is returned while these are unchanged, and a widget whose
\* options changed is a new widget holding its default.
widget_value(stored, opts, default) ==
    IF stored # <<>> /\ stored[1].opts = opts THEN stored[1].val ELSE default

\* A faulty variant of cities_for: the state selection is ignored.
cities_for_all(df, sel_state) == unique(df, "PPickup City")

\* Line 69: the options of the City widget for a state selection.
cities_for(df, sel_state) ==
    IF sel_state # {}
    THEN unique(isin(df, "Pickup State", sel_state), "PPickup City")
    ELSE unique(df, "PPickup City")

----------------------------------------------------------------------------
(* The script, lines 51-141.  A script state s carries the exception raised
   so far (s.exc): every statement after a raise is skipped up to the
   handler of line 140. *)

Blank ==
    [ rendered |-> <<>>, error |-> <<>>, raised |-> <<>>, uncaught |-> <<>>,
      df |-> <<>>, sel |-> NoWidgets, opts |-> <<>>, filtered_df |-> <<>>,
      revenue |-> <<>>, profit |-> <<>>, avg_rpm |-> <<>>, n_loads |-> <<>>,
      d_sum |-> <<>>, t_sum |-> <<>>, s_counts |-> <<>>, b_sum |-> <<>>,
      report |-> <<>> ]

\* Lines 8-42, before the try: the page configuration and the style sheet.
Start(c) ==
    [ exc |-> <<>>, cache |-> c, ran |-> 0, widgets |-> NoWidgets,
      out |-> [Blank EXCEPT !.rendered = <<"style">>] ]

Fail(s, e) == [s EXCEPT !.exc = <<e>>]

Emit(s, el) == [s EXCEPT !.out.rendered = Append(@, el)]

\* Line 52: df = load_data()
StLoad(s, f) ==
    LET r == cached_load(s.cache, f)
    IN IF r.exc # <<>> THEN Fail(s, r.exc[1])
       ELSE [s EXCEPT !.cache = r.cache, !.ran = r.ran, !.out.df = r.df]

\* Lines 54-58: the title and the opening of the filter box.
StTitle(s) ==
    IF s.exc # <<>> THEN s ELSE Emit(Emit(s, "title"), "filter-box")

\* Lines 60-67: st.multiselect(label, options=sorted(df[c].unique())).
StMultiselect(s, w, label, c, line) ==
    IF s.exc # <<>> THEN s
    ELSE IF ~HasCol(s.out.df[1], c) THEN Fail(s, Raise("KeyError", c, line))
    ELSE LET opts == unique(s.out.df[1], c)
             val == widget_value(w[label], opts, {})
         IN [Emit(s, label) EXCEPT
                !.widgets[label] = <<[opts |-> opts, val |-> val]>>,
                !.out.sel[label] = <<val>>]

\* Lines 68-70: the City widget, its options depending on the states selected.
StCity(s, w) ==
    IF s.exc # <<>> THEN s
    ELSE IF ~HasCol(s.out.df[1], "PPickup City")
         THEN Fail(s, Raise("KeyError", "PPickup City", 69))
    ELSE LET opts == cities_for(s.out.df[1], s.out.sel["State"][1])
             val == widget_value(w["City"], opts, {})
         IN [Emit(s, "City") EXCEPT
                !.widgets["City"] = <<[opts |-> opts, val |-> val]>>,
                !.out.sel["City"] = <<val>>,
                !.out.opts = <<opts>>]

SetMin(S) == CHOOSE x \in S : \A y \in S : x <= y

SetMax(S) == CHOOSE x \in S : \A y \in S : y <= x

\* Lines 71-77: st.date_input over (min_date, max_date).  The minimum of an
\* empty column is NaN, which date_input rejects.
StDate(s, w) ==
    IF s.exc # <<>> THEN s
    ELSE LET dates == unique(s.out.df[1], "Pickup Date")
         IN IF dates = {}
            THEN Fail(s, Raise("StreamlitAPIException", "DateInput value", 75))
            ELSE LET mn == SetMin(dates)
                     mx == SetMax(dates)
                     val == widget_value(w["Date Range"], <<mn, mx>>, <<mn, mx>>)
                 IN [Emit(s, "Date Range") EXCEPT
                        !.widgets["Date Range"] = <<[opts |-> <<mn, mx>>, val |-> val]>>,
                        !.out.sel["Date Range"] = <<val>>]

\* A faulty variant of apply_filters: the city filter is taken from df, which
\* drops the filters applied before it.
apply_filters_city_on_df(df, sel_driver, sel_status, sel_truck, sel_state, sel_city, sel_dates) ==
    LET d0 == df
        d1 == IF sel_driver # {} THEN isin(d0, "Driver", sel_driver) ELSE d0
        d2 == IF sel_status # {} THEN isin(d1, "Delivery Status", sel_status) ELSE d1
        d3 == IF sel_truck # {} THEN isin(d2, "Truck#", sel_truck) ELSE d2
        d4 == IF sel_state # {} THEN isin(d3, "Pickup State", sel_state) ELSE d3
        d5 == IF sel_city # {} THEN isin(d0, "PPickup City", sel_city) ELSE d4
    IN IF Len(sel_dates) = 2
       THEN between(d5, "Pickup Date", sel_dates[1], sel_dates[2])
       ELSE d5

\* Lines 80-90: the filters, applied one after the other.
apply_filters(df, sel_driver, sel_status, sel_truck, sel_state, sel_city, sel_dates) ==
    LET d0 == df
        d1 == IF sel_driver # {} THEN isin(d0, "Driver", sel_driver) ELSE d0
        d2 == IF sel_status # {} THEN isin(d1, "Delivery Status", sel_status) ELSE d1
        d3 == IF sel_truck # {} THEN isin(d2, "Truck#", sel_truck) ELSE d2
        d4 == IF sel_state # {} THEN isin(d3, "Pickup State", sel_state) ELSE d3
        d5 == IF sel_city # {} THEN isin(d4, "PPickup City", sel_city) ELSE d4
    IN IF Len(sel_dates) = 2
       THEN between(d5, "Pickup Date", sel_dates[1], sel_dates[2])
       ELSE d5

StFilter(s) ==
    IF s.exc # <<>> THEN s
    ELSE LET v == s.out.sel
         IN [s EXCEPT !.out.filtered_df =
                << apply_filters(s.out.df[1], v["Driver"][1], v["Status"][1], v["Truck#"][1],
                                 v["State"][1], v["City"][1], v["Date Range"][1]) >>]

\* A faulty variant of avg_rpm: the mean is taken of an empty view too.
avg_rpm_unguarded(fdf) == mean(fdf, "Rate/Mile")

\* Line 97: the mean of Rate/Mile, 0 for an empty view.
avg_rpm(fdf) == IF fdf.rows # <<>> THEN mean(fdf, "Rate/Mile") ELSE <<0, 1>>

\* A faulty variant of StMetrics: Profit sums Amount.
StMetrics_profit_from_amount(s) ==
    IF s.exc # <<>> THEN s
    ELSE LET fdf == s.out.filtered_df[1]
             s1 == [Emit(s, "Revenue") EXCEPT !.out.revenue = <<sum(fdf, "Amount")>>]
             s2 == [Emit(s1, "Profit") EXCEPT !.out.profit = <<sum(fdf, "Amount")>>]
         IN IF fdf.rows # <<>> /\ ~HasCol(fdf, "Rate/Mile")
            THEN Fail(s2, Raise("KeyError", "Rate/Mile", 97))
            ELSE LET s3 == [Emit(s2, "Avg RPM") EXCEPT !.out.avg_rpm = <<avg_rpm(fdf)>>]
                 IN [Emit(s3, "Loads") EXCEPT !.out.n_loads = <<Len(fdf.rows)>>]

\* Lines 93-99: the four metrics.  The values are those handed to the number
\* formats of st.metric.
StMetrics(s) ==
    IF s.exc # <<>> THEN s
    ELSE LET fdf == s.out.filtered_df[1]
             s1 == [Emit(s, "Revenue") EXCEPT !.out.revenue = <<sum(fdf, "Amount")>>]
             s2 == [Emit(s1, "Profit") EXCEPT !.out.profit = <<sum(fdf, "Net Profit")>>]
         IN IF fdf.rows # <<>> /\ ~HasCol(fdf, "Rate/Mile")
            THEN Fail(s2, Raise("KeyError", "Rate/Mile", 97))
            ELSE LET s3 == [Emit(s2, "Avg RPM") EXCEPT !.out.avg_rpm = <<avg_rpm(fdf)>>]
                 IN [Emit(s3, "Loads") EXCEPT !.out.n_loads = <<Len(fdf.rows)>>]

\* Lines 102-129: the data of the four charts.
StCharts(s) ==
    IF s.exc # <<>> THEN s
    ELSE LET fdf == s.out.filtered_df[1]
             s1 == [Emit(s, "Revenue by Driver") EXCEPT
                        !.out.d_sum = <<groupby_sum(fdf, "Driver", "Amount")>>]
             s2 == [Emit(s1, "Revenue Trend") EXCEPT
                        !.out.t_sum = <<by_date(fdf, "Pickup Date", "Amount")>>]
             s3 == [Emit(s2, "Loads by State") EXCEPT
                        !.out.s_counts = <<value_counts(fdf, "Pickup State")>>]
         IN IF ~HasCol(fdf, "Broker Name")
            THEN Fail(s3, Raise("KeyError", "Broker Name", 126))
            ELSE [Emit(s3, "Broker Profit Share") EXCEPT
                        !.out.b_sum = <<groupby_sum(fdf, "Broker Name", "Net Profit")>>]

\* Lines 132-136: the sheet written by d.to_excel(writer, index=False): a
\* header row and one row of cells per row of d, no index column.
to_excel(d) ==
    [ header |-> d.columns,
      cells |-> [i \in 1..Len(d.rows) |-> [j \in 1..Len(d.columns) |-> d.rows[i][d.columns[j]]]] ]

\* Line 138: the download button and its data.
StDownload(s) ==
    IF s.exc # <<>> THEN s
    ELSE [Emit(s, "Download Report") EXCEPT !.out.report = <<to_excel(s.out.filtered_df[1])>>]

\* A faulty variant of catches: the handler names KeyError only.
catches_keyerror(e) == e.type = "KeyError"

\* Which exceptions the handler of line 140 catches: every Exception.
catches(e) == TRUE

\* Lines 140-141: except Exception as e: st.error(f"Error: {e}")
StHandler(s) ==
    IF s.exc = <<>> THEN s
    ELSE IF catches(s.exc[1])
         THEN [Emit(s, "error") EXCEPT
                  !.out.error = <<"Error: ", s.exc[1].arg>>,
                  !.out.raised = s.exc,
                  !.exc = <<>>]
         ELSE [s EXCEPT !.out.raised = s.exc, !.out.uncaught = s.exc]

\* One run of the script with the file f, the cache c and the widget state w.
Script(f, c, w) ==
    LET s1 == StTitle(StLoad(Start(c), f))
        s2 == StMultiselect(s1, w, "Driver", "Driver", 61)
        s3 == StMultiselect(s2, w, "Status", "Delivery Status", 63)
        s4 == StMultiselect(s3, w, "Truck#", "Truck#", 65)
        s5 == StMultiselect(s4, w, "State", "Pickup State", 67)
        s6 == StDate(StCity(s5, w), w)
    IN StHandler(StDownload(StCharts(StMetrics(StFilter(s6)))))

----------------------------------------------------------------------------
(* The state machine *)

Init ==
    /\ file \in Files
    /\ cache = <<>>
    /\ loads = 0
    /\ session = NoWidgets
    /\ ui = Blank
    /\ runs = 0

\* A script run on the widget state w: the whole of lines 8-141.
Run(w) ==
    LET s == Script(file, cache, w)
    IN /\ runs < MaxRuns
       /\ runs' = runs + 1
       /\ cache' = s.cache
       /\ loads' = loads + s.ran
       /\ session' = s.widgets
       /\ ui' = s.out
       /\ UNCHANGED file

\* The page is opened or reloaded with the widgets as they are.
Rerun == Run(session)

Toggle(S, x) == IF x \in S THEN S \ {x} ELSE S \cup {x}

\* The user adds or removes one option of a multiselect; the script reruns.
Select(label) ==
    /\ session[label] # <<>>
    /\ \E x \in session[label][1].opts :
          Run([session EXCEPT ![label][1].val = Toggle(@, x)])

SelectDriver == Select("Driver")

SelectStatus == Select("Status")

SelectTruck == Select("Truck#")

SelectState == Select("State")

SelectCity == Select("City")

\* The value of the date range after the user picks the date d: a first pick
\* starts a range, a second pick not before the first completes it.
pick(val, d) ==
    IF Len(val) = 1 /\ d >= val[1] THEN <<val[1], d>> ELSE <<d>>

\* The user picks a date in the date-range widget; the script reruns.
PickDate ==
    /\ session["Date Range"] # <<>>
    /\ \E d \in session["Date Range"][1].opts[1] .. session["Date Range"][1].opts[2] :
          Run([session EXCEPT !["Date Range"][1].val = pick(@, d)])

\* The cache of load_data is cleared (Streamlit's "Clear cache" command).
ClearCache ==
    /\ cache # <<>>
    /\ cache' = <<>>
    /\ UNCHANGED <<file, loads, session, ui, runs>>

\* The spreadsheet is removed from the working directory.
RemoveFile ==
    /\ file.kind = "xlsx"
    /\ file' = MissingFile
    /\ UNCHANGED <<cache, loads, session, ui, runs>>

Next ==
    \/ Rerun
    \/ SelectDriver
    \/ SelectStatus
    \/ SelectTruck
    \/ SelectState
    \/ SelectCity
    \/ PickDate

Spec == Init /\ [][Next]_vars

\* The script together with its environment: the cache may be cleared and the
\* file removed between runs.
NextEnv ==
    \/ Next
    \/ ClearCache
    \/ RemoveFile

\* The files the runs with an environment start from: the absent and the
\* unreadable file, the empty table, the tables of one row and the tables
\* that lack a column.
InitEnv ==
    /\ Init
    /\ file.kind = "xlsx" => (Len(file.rows) <= 1 \/ Len(file.columns) < Len(AllColumns))

SpecEnv == InitEnv /\ [][NextEnv]_vars

----------------------------------------------------------------------------
(* What the claims speak of *)

\* The table the last run worked on, and its filtered view.
T == ui.df[1]

V == ui.filtered_df[1]

Viewed == ui.filtered_df # <<>>

SelOf(label) == ui.sel[label][1]

PassesCat(row) ==
    /\ SelOf("Driver") = {} \/ row["Driver"] \in SelOf("Driver")
    /\ SelOf("Status") = {} \/ row["Delivery Status"] \in SelOf("Status")
    /\ SelOf("Truck#") = {} \/ row["Truck#"] \in SelOf("Truck#")
    /\ SelOf("State") = {} \/ row["Pickup State"] \in SelOf("State")
    /\ SelOf("City") = {} \/ row["PPickup City"] \in SelOf("City")

PassesDate(row) ==
    Len(SelOf("Date Range")) = 2 =>
        /\ SelOf("Date Range")[1] <= row["Pickup Date"]
        /\ row["Pickup Date"] <= SelOf("Date Range")[2]

\* The rows of T at the indices I, in T's order.
RowsAt(I) == LET ix == SortedSeq(I) IN [k \in 1..Len(ix) |-> T.rows[ix[k]]]

NoCatSelection ==
    \A l \in {"Driver", "Status", "Truck#", "State", "City"} : SelOf(l) = {}

CellValue(x) == IF x = <<>> THEN 0 ELSE x[1]

RECURSIVE SumOver(_, _, _)
\* The sum of column c over the rows at the indices I, an empty cell adding 0.
SumOver(I, rows, c) ==
    IF I = {} THEN 0
    ELSE LET i == CHOOSE j \in I : TRUE
         IN CellValue(rows[i][c]) + SumOver(I \ {i}, rows, c)

IdxWith(rows, c, g) == { i \in 1..Len(rows) : rows[i][c] = g }

IsScenario == file = Xlsx(AllColumns, ScenarioTable)

FullRange == SelOf("Date Range") = <<1, 3>>

----------------------------------------------------------------------------
(* C1 *)

\* C1: the filtered view is exactly the rows of T, in T's order, whose
\* Driver, Delivery Status, Truck#, Pickup State and PPickup City are each in
\* the corresponding selection when that selection is non-empty (and whose
\* date the date range admits); with every selection empty and no complete
\* date range the view is T.
C1_FilterIsConjunction ==
    Viewed =>
        /\ V.columns = T.columns
        /\ V.rows = RowsAt({ i \in 1..Len(T.rows) :
                                PassesCat(T.rows[i]) /\ PassesDate(T.rows[i]) })
        /\ (NoCatSelection /\ Len(SelOf("Date Range")) # 2) => V = T

\* Two selections are non-empty and the view is a proper, non-empty part of T.
C1_Witness ==
    /\ Viewed
    /\ SelOf("Driver") # {}
    /\ SelOf("City") # {}
    /\ SelOf("Status") = {}
    /\ Len(V.rows) > 0
    /\ Len(V.rows) < Len(T.rows)

(* C2 *)

\* C2: with both dates given, a row that passes the categorical filters is in
\* the view exactly when start <= Pickup Date <= end; with one date given, no
\* row is removed on account of its date.
C2_DateRange ==
    Viewed =>
        LET d == SelOf("Date Range")
            cat == { i \in 1..Len(T.rows) : PassesCat(T.rows[i]) }
        IN /\ Len(d) = 2 =>
                \A i \in cat :
                    (T.rows[i] \in Range(V.rows)) <=>
                        (d[1] <= T.rows[i]["Pickup Date"] /\ T.rows[i]["Pickup Date"] <= d[2])
           /\ Len(d) # 2 => Range(V.rows) = { T.rows[i] : i \in cat }

\* A complete range narrower than the table: a row on the start date and a
\* row on the end date are kept, another row is removed by its date.
C2_Witness ==
    /\ Viewed
    /\ Len(SelOf("Date Range")) = 2
    /\ \E i \in 1..Len(V.rows) : V.rows[i]["Pickup Date"] = SelOf("Date Range")[1]
    /\ \E i \in 1..Len(V.rows) : V.rows[i]["Pickup Date"] = SelOf("Date Range")[2]
    /\ \E i \in 1..Len(T.rows) : PassesCat(T.rows[i]) /\ T.rows[i] \notin Range(V.rows)

(* C3 *)

\* C3: Revenue is the sum of Amount over the rows of the view, Profit the sum
\* of Net Profit, Load Count the number of rows; the scenario table filtered
\* by Driver A gives Revenue 250, Profit 230, Count 2.
C3_ScalarKPIs ==
    (Viewed /\ ui.n_loads # <<>>) =>
        /\ ui.revenue = <<SumOver(DOMAIN V.rows, V.rows, "Amount")>>
        /\ ui.profit = <<SumOver(DOMAIN V.rows, V.rows, "Net Profit")>>
        /\ ui.n_loads = <<Cardinality(DOMAIN V.rows)>>
        /\ (IsScenario /\ SelOf("Driver") = {"A"} /\ FullRange
              /\ \A l \in {"Status", "Truck#", "State", "City"} : SelOf(l) = {})
           => (ui.revenue = <<250>> /\ ui.profit = <<230>> /\ ui.n_loads = <<2>>)

\* The scenario: the three-row table filtered by Driver A.
C3_Witness ==
    /\ Viewed
    /\ IsScenario
    /\ SelOf("Driver") = {"A"}
    /\ FullRange
    /\ \A l \in {"Status", "Truck#", "State", "City"} : SelOf(l) = {}
    /\ ui.revenue = <<250>>

(* C4 *)

\* C4: a view of zero rows (of a table that has every column) is summarized
\* without an exception: Revenue, Profit, Average Rate-Per-Mile and Load
\* Count are 0 and the four grouped aggregates are empty.
C4_EmptyView ==
    (Viewed /\ V.rows = <<>> /\ HasCol(V, "Broker Name")) =>
        /\ ui.raised = <<>>
        /\ ui.error = <<>>
        /\ ui.revenue = <<0>>
        /\ ui.profit = <<0>>
        /\ ui.avg_rpm = << <<0, 1>> >>
        /\ ui.n_loads = <<0>>
        /\ ui.d_sum # <<>> /\ DOMAIN ui.d_sum[1] = {}
        /\ ui.t_sum = << <<>> >>
        /\ ui.s_counts # <<>> /\ DOMAIN ui.s_counts[1] = {}
        /\ ui.b_sum # <<>> /\ DOMAIN ui.b_sum[1] = {}

\* The filters of a table with rows leave no row, and the run completes.
C4_Witness ==
    /\ Viewed
    /\ V.rows = <<>>
    /\ Len(T.rows) > 0
    /\ ui.report # <<>>

(* C5 *)

\* C5 as claimed: once load_data has run, Net Profit is defined in every row
\* of the loaded table, whatever cells of the row are empty.
C5_AlwaysDefined ==
    cache # <<>> =>
        \A i \in 1..Len(cache[1].rows) : ~isna(cache[1].rows[i]["Net Profit"])

\* C5, amended: Net Profit is defined in every row whose Amount is present,
\* and is Amount minus Driver Pay minus Lumper Paid with an absent Driver Pay
\* or Lumper Paid counted as 0; in a row whose Amount is absent it is missing.
C5_NetProfit ==
    cache # <<>> =>
        /\ Len(cache[1].rows) = Len(file.rows)
        /\ \A i \in 1..Len(file.rows) :
              LET r == file.rows[i]
                  np == cache[1].rows[i]["Net Profit"]
              IN IF r["Amount"] = <<>> THEN np = <<>>
                 ELSE np = << r["Amount"][1] - CellValue(r["Driver Pay"])
                                             - CellValue(r["Lumper Paid"]) >>

\* A loaded table with a row that has an Amount and no Driver Pay.
C5_Witness ==
    /\ cache # <<>>
    /\ \E i \in 1..Len(cache[1].rows) :
          /\ cache[1].rows[i]["Driver Pay"] = <<>>
          /\ cache[1].rows[i]["Amount"] # <<>>
          /\ cache[1].rows[i]["Net Profit"] # <<>>

(* C6 *)

\* The last run failed in load_data (lines 46-48).
LoadFailed(u) == u.raised # <<>> /\ u.raised[1].line \in 46..48

\* What a run shows apart from the error message.
Rest(u) ==
    [u EXCEPT !.error = <<>>, !.raised = <<>>,
              !.rendered = SelectSeq(@, LAMBDA e : e # "error")]

\* C6 as claimed: when a run after a valid run fails to load, the error is
\* caught and shown and the rest of the interface is as the valid run left it.
C6_LastValidStateKept ==
    [][ (ui.raised = <<>> /\ ui.rendered # <<>> /\ LoadFailed(ui')) =>
            (ui'.error # <<>> /\ ui'.uncaught = <<>> /\ Rest(ui') = Rest(ui)) ]_vars

\* C6, amended: whenever a run raises (the file absent, unreadable or lacking
\* a column), the error is caught and shown as the last element of the page
\* and the run ends normally; when load_data itself fails the page holds the
\* error message alone: no filter, metric, chart or download button of an
\* earlier run is kept.
C6_ErrorShown ==
    ui.raised # <<>> =>
        /\ ui.error = <<"Error: ", ui.raised[1].arg>>
        /\ ui.uncaught = <<>>
        /\ ui.rendered[Len(ui.rendered)] = "error"
        /\ ui.report = <<>>
        /\ LoadFailed(ui) =>
              /\ ui.rendered = <<"style", "error">>
              /\ Rest(ui) = [Blank EXCEPT !.rendered = <<"style">>]

\* A load failure in a session that had loaded a table before.
C6_Witness == LoadFailed(ui) /\ loads >= 1

(* C7 *)

C8_CityOptions ==
    ui.opts # <<>> =>
        LET S == SelOf("State")
        IN ui.opts[1] =
             IF S = {} THEN { T.rows[i]["PPickup City"] : i \in 1..Len(T.rows) }
             ELSE { T.rows[i]["PPickup City"] :
                        i \in { j \in 1..Len(T.rows) : T.rows[j]["Pickup State"] \in S } }

\* TX is selected and the options are Austin and Dallas, not every city.
C8_Witness ==
    /\ ui.opts # <<>>
    /\ SelOf("State") = {"TX"}
    /\ ui.opts[1] = {"Austin", "Dallas"}
    /\ "LA" \in unique(T, "PPickup City")

(* C9 *)

\* The entries of a grouped aggregate g over the key column k: one per key
\* present in the view, none for another key.
OnePerKey(g, k) == DOMAIN g = { V.rows[i][k] : i \in 1..Len(V.rows) }

\* C9: each grouped aggregate has exactly one entry per key present in the
\* view: Count-by-State the number of rows of the state, Revenue-by-Driver the
\* driver's sum of Amount, Profit-by-Broker the broker's sum of Net Profit;
\* the scenario table unfiltered gives TX: 2, CA: 1.
C9_GroupedAggregates ==
    (Viewed /\ ui.b_sum # <<>>) =>
        LET d == ui.d_sum[1]
            c == ui.s_counts[1]
            b == ui.b_sum[1]
        IN /\ OnePerKey(d, "Driver")
           /\ OnePerKey(c, "Pickup State")
           /\ OnePerKey(b, "Broker Name")
           /\ \A g \in DOMAIN c : c[g] = Cardinality(IdxWith(V.rows, "Pickup State", g))
           /\ \A g \in DOMAIN d : d[g] = SumOver(IdxWith(V.rows, "Driver", g), V.rows, "Amount")
           /\ \A g \in DOMAIN b :
                 b[g] = SumOver(IdxWith(V.rows, "Broker Name", g), V.rows, "Net Profit")
           /\ (IsScenario /\ V = T) => (c["TX"] = 2 /\ c["CA"] = 1 /\ DOMAIN c = {"TX", "CA"})

\* A view in which a state of the table has no row, and another has two.
C9_Witness ==
    /\ Viewed
    /\ ui.b_sum # <<>>
    /\ \E g \in unique(T, "Pickup State") : g \notin DOMAIN ui.s_counts[1]
    /\ \E g \in DOMAIN ui.s_counts[1] : ui.s_counts[1][g] = 2

(* C10 *)

\* C10: in every run the city selection the filter uses is among the options
\* computed from the states selected in that run: each selected city is the
\* city of a row whose state is selected (of any row, when none is).
C10_CityWithinStates ==
    ui.sel["City"] # <<>> =>
        /\ SelOf("City") \subseteq ui.opts[1]
        /\ \A c \in SelOf("City") :
              \E i \in 1..Len(T.rows) :
                  /\ T.rows[i]["PPickup City"] = c
                  /\ SelOf("State") = {} \/ T.rows[i]["Pickup State"] \in SelOf("State")

\* A city is selected under a state selection that narrows the options, and
\* the filter has been applied.
C10_Witness ==
    /\ Viewed
    /\ SelOf("State") # {}
    /\ SelOf("City") # {}
    /\ ui.opts[1] # unique(T, "PPickup City")

====
